---- MODULE Spec2Model ----
(***************************************************************************)
(* LSB steganography codec of steganography.py: encode_message,            *)
(* decode_message and image_capacity over a small file system of images.   *)
(* Text is a sequence of Unicode code points, bytes are 0..255, a pixel is *)
(* a tuple of band values, an image is [kind, mode, size, data].           *)
(***************************************************************************)
EXTENDS Integers, Sequences, FiniteSets, TLC

\* ------------------------------------------------------------------ bounds
\* carrier images are 8 pixels wide and 1..MaxHeight pixels high
MaxHeight == 7
\* messages are up to MaxRepeat repetitions of one character
MaxRepeat == 4

\* --------------------------------------------------------------- constants
\* "<<END>>" as code points
DELIMITER == <<60, 60, 69, 78, 68, 62, 62>>

\* ------------------------------------------------------------ text <-> bytes
\* str.encode("utf-8") of one code point; lone surrogates cannot be encoded
Utf8OfCodePoint(cp) ==
    IF cp < 128 THEN <<cp>>
    ELSE IF cp < 2048 THEN <<192 + (cp \div 64), 128 + (cp % 64)>>
    ELSE IF cp < 65536
         THEN <<224 + (cp \div 4096), 128 + ((cp \div 64) % 64), 128 + (cp % 64)>>
    ELSE <<240 + (cp \div 262144), 128 + ((cp \div 4096) % 64),
           128 + ((cp \div 64) % 64), 128 + (cp % 64)>>

IsSurrogate(cp) == cp >= 55296 /\ cp <= 57343

\* TRUE iff text.encode("utf-8") does not raise UnicodeEncodeError
CanEncodeUtf8(text) == \A i \in 1..Len(text) : ~IsSurrogate(text[i])

RECURSIVE Utf8Encode(_)
Utf8Encode(text) ==
    IF text = <<>> THEN <<>>
    ELSE Utf8OfCodePoint(Head(text)) \o Utf8Encode(Tail(text))

IsCont(b) == b >= 128 /\ b <= 191

\* number of bytes of the well-formed UTF-8 sequence starting at bytes[i],
\* 0 if there is none (strict decoder: no overlongs, no surrogates, max U+10FFFF)
Utf8SeqLen(bytes, i) ==
    LET n  == Len(bytes)
        b0 == bytes[i]
    IN  IF b0 < 128 THEN 1
        ELSE IF b0 >= 194 /\ b0 <= 223
             THEN IF i + 1 <= n /\ IsCont(bytes[i + 1]) THEN 2 ELSE 0
        ELSE IF b0 >= 224 /\ b0 <= 239
             THEN IF /\ i + 2 <= n
                     /\ IsCont(bytes[i + 1])
                     /\ IsCont(bytes[i + 2])
                     /\ (b0 = 224 => bytes[i + 1] >= 160)
                     /\ (b0 = 237 => bytes[i + 1] <= 159)
                  THEN 3 ELSE 0
        ELSE IF b0 >= 240 /\ b0 <= 244
             THEN IF /\ i + 3 <= n
                     /\ IsCont(bytes[i + 1])
                     /\ IsCont(bytes[i + 2])
                     /\ IsCont(bytes[i + 3])
                     /\ (b0 = 240 => bytes[i + 1] >= 144)
                     /\ (b0 = 244 => bytes[i + 1] <= 143)
                  THEN 4 ELSE 0
        ELSE 0

\* code point of the well-formed sequence of length k starting at bytes[i]
Utf8CodePoint(bytes, i, k) ==
    IF k = 1 THEN bytes[i]
    ELSE IF k = 2 THEN (bytes[i] - 192) * 64 + (bytes[i + 1] - 128)
    ELSE IF k = 3
         THEN (bytes[i] - 224) * 4096 + (bytes[i + 1] - 128) * 64 + (bytes[i + 2] - 128)
    ELSE (bytes[i] - 240) * 262144 + (bytes[i + 1] - 128) * 4096
         + (bytes[i + 2] - 128) * 64 + (bytes[i + 3] - 128)

\* TRUE iff bytes.decode("utf-8") does not raise UnicodeDecodeError
RECURSIVE IsValidUtf8(_, _)
IsValidUtf8(bytes, i) ==
    IF i > Len(bytes) THEN TRUE
    ELSE LET k == Utf8SeqLen(bytes, i)
         IN  k > 0 /\ IsValidUtf8(bytes, i + k)

\* bytes.decode("utf-8") of valid bytes, from position i
RECURSIVE Utf8Decode(_, _)
Utf8Decode(bytes, i) ==
    IF i > Len(bytes) THEN <<>>
    ELSE LET k == Utf8SeqLen(bytes, i)
         IN  <<Utf8CodePoint(bytes, i, k)>> \o Utf8Decode(bytes, i + k)

\* bytes.decode("latin-1"): one character per byte
Latin1Decode(bytes) == [i \in 1..Len(bytes) |-> bytes[i]]

\* mutant: no fallback, undecodable bytes give no text
DecodeText_NoFallback(bytes) ==
    IF IsValidUtf8(bytes, 1) THEN Utf8Decode(bytes, 1) ELSE <<-1>>

\* the try/except of decode_message: UTF-8, falling back to Latin-1
DecodeText(bytes) ==
    IF IsValidUtf8(bytes, 1) THEN Utf8Decode(bytes, 1) ELSE Latin1Decode(bytes)

\* ------------------------------------------------------------ bytes <-> bits
\* mutant: bits taken least-significant first
BitOf_LsbFirst(byte, i) == (byte \div (2 ^ (7 - i))) % 2

\* (byte >> i) & 1
BitOf(byte, i) == (byte \div (2 ^ i)) % 2

\* for byte in ...: for i in range(7, -1, -1): bits.append((byte >> i) & 1)
BytesToBits(bytes) ==
    [n \in 1..(8 * Len(bytes)) |-> BitOf(bytes[((n - 1) \div 8) + 1], 7 - ((n - 1) % 8))]

\* byte = 0; for b in buffer: byte = (byte << 1) | b   -- the k-th full byte of bits
ByteOfBits(bits, k) ==
    LET b(j) == bits[8 * (k - 1) + j]
    IN  128 * b(1) + 64 * b(2) + 32 * b(3) + 16 * b(4) + 8 * b(5) + 4 * b(6) + 2 * b(7) + b(8)

\* --------------------------------------------------------- password transform
RECURSIVE SumOrd(_)
SumOrd(password) ==
    IF password = <<>> THEN 0 ELSE Head(password) + SumOrd(Tail(password))

\* shift = sum(ord(c) for c in password) % 256
ShiftOf(password) == SumOrd(password) % 256

\* if password: payload_bytes = bytes((b + shift) % 256 for b in payload_bytes)
ApplyShift(bytes, password) ==
    IF password # <<>>
    THEN [i \in 1..Len(bytes) |-> (bytes[i] + ShiftOf(password)) % 256]
    ELSE bytes

\* mutants: the password is ignored at decode; the shift is added again
ReverseShift_Ignored(bytes, password) == bytes

ReverseShift_Added(bytes, password) ==
    IF password # <<>>
    THEN [i \in 1..Len(bytes) |-> (bytes[i] + ShiftOf(password)) % 256]
    ELSE bytes

\* if password: payload_bytes = bytes((b - shift) % 256 for b in payload_bytes)
ReverseShift(bytes, password) ==
    IF password # <<>>
    THEN [i \in 1..Len(bytes) |-> (bytes[i] - ShiftOf(password)) % 256]
    ELSE bytes

\* --------------------------------------------------------------------- files
NoFile      == [kind |-> "none",    mode |-> "", size |-> <<0, 0>>, data |-> <<>>]
\* a file that the image library cannot identify or finish reading
CorruptFile == [kind |-> "corrupt", mode |-> "", size |-> <<0, 0>>, data |-> <<>>]

NewImage(mode, w, h, data) ==
    [kind |-> "image", mode |-> mode, size |-> <<w, h>>, data |-> data]

\* Image.new(mode, (w, h), color)
SolidImage(mode, w, h, color) == NewImage(mode, w, h, [i \in 1..(w * h) |-> color])

\* len(img.getbands())
BandCount(mode) == CASE mode = "L" -> 1 [] mode = "RGB" -> 3 [] mode = "RGBA" -> 4

\* list(img.convert("RGB").getdata()): grey is replicated, alpha is dropped
ConvertRGB(img) ==
    [i \in 1..Len(img.data) |->
        CASE img.mode = "L"    -> <<img.data[i][1], img.data[i][1], img.data[i][1]>>
          [] img.mode = "RGB"  -> img.data[i]
          [] img.mode = "RGBA" -> SubSeq(img.data[i], 1, 3)]

\* [channel for pixel in pixels for channel in pixel]
FlatPixels(pixels) ==
    [n \in 1..(3 * Len(pixels)) |-> pixels[((n - 1) \div 3) + 1][((n - 1) % 3) + 1]]

\* [(flat[i], flat[i + 1], flat[i + 2]) for i in range(0, len(flat), 3)]
NewPixels(flat) ==
    [i \in 1..(Len(flat) \div 3) |-> <<flat[3 * i - 2], flat[3 * i - 1], flat[3 * i]>>]

\* mutant: the bit is or-ed in without clearing the old one
EmbedBits_OrOnly(flat, bits) ==
    [n \in 1..Len(flat) |->
        IF n <= Len(bits) /\ flat[n] % 2 = 0 THEN flat[n] + bits[n] ELSE flat[n]]

\* mutant: the last bit of every channel is cleared, used or not
EmbedBits_ClearsAll(flat, bits) ==
    [n \in 1..Len(flat) |->
        IF n <= Len(bits) THEN (flat[n] - (flat[n] % 2)) + bits[n]
        ELSE flat[n] - (flat[n] % 2)]

\* flat_pixels[idx] = (flat_pixels[idx] & ~1) | bit, for every idx < len(bits)
EmbedBits(flat, bits) ==
    [n \in 1..Len(flat) |->
        IF n <= Len(bits) THEN (flat[n] - (flat[n] % 2)) + bits[n] ELSE flat[n]]

\* raw_bits = [p & 1 for p in flat_pixels]
RawBits(flat) == [n \in 1..Len(flat) |-> flat[n] % 2]

\* Python's None, where a text is expected (no code point is negative)
None == <<-1>>

\* ---------------------------------------------------- outcomes of a try body
Return(value) == [kind |-> "return", value |-> value]
Raise(exc)    == [kind |-> "raise",  exc |-> exc]
\* the body has reached new_img.save(output_path): value is returned if it works
Save(image, value) == [kind |-> "save", image |-> image, value |-> value]

\* every exception class the codec's calls raise here derives from Exception
ExceptionClasses ==
    {"FileNotFoundError", "UnidentifiedImageError", "UnicodeEncodeError",
     "PermissionError", "OSError"}

\* Image.open(image_path): the exception it raises, "" if it opens
OpenError(file) ==
    CASE file.kind = "none"    -> "FileNotFoundError"
      [] file.kind = "corrupt" -> "UnidentifiedImageError"
      [] file.kind = "image"   -> ""

\* ------------------------------------------------------------ encode_message
TooLarge_OffByOne(bits, capacity_bits) == Len(bits) >= capacity_bits

\* if len(bits) > capacity_bits
TooLarge(bits, capacity_bits) == Len(bits) > capacity_bits

\* mutant: the reported capacity already has the delimiter taken off
EncodeBody_CapacityLessDelimiter(file, message, password) ==
    IF OpenError(file) # "" THEN Raise(OpenError(file))
    ELSE
    LET pixels         == ConvertRGB(file)
        width          == file.size[1]
        height         == file.size[2]
        capacity_bits  == width * height * 3
        capacity_chars == (capacity_bits \div 8) - Len(DELIMITER)
    IN  IF ~CanEncodeUtf8(message) THEN Raise("UnicodeEncodeError")
        ELSE
        LET payload_bytes      == ApplyShift(Utf8Encode(message), password)
            full_payload_bytes == payload_bytes \o Utf8Encode(DELIMITER)
            bits               == BytesToBits(full_payload_bytes)
        IN  IF TooLarge(bits, capacity_bits)
            THEN Return([success  |-> FALSE,
                         message  |-> "Message too large!",
                         capacity |-> capacity_chars,
                         used     |-> Len(full_payload_bytes)])
            ELSE
            LET flat_pixels == EmbedBits(FlatPixels(pixels), bits)
                new_img     == NewImage("RGB", width, height, NewPixels(flat_pixels))
            IN  Save(new_img,
                     [success  |-> TRUE,
                      message  |-> "Message successfully hidden in image!",
                      capacity |-> capacity_chars,
                      used     |-> Len(full_payload_bytes)])

\* the body of encode_message's try block, up to the save
EncodeBody(file, message, password) ==
    IF OpenError(file) # "" THEN Raise(OpenError(file))
    ELSE
    LET pixels         == ConvertRGB(file)
        width          == file.size[1]
        height         == file.size[2]
        capacity_bits  == width * height * 3
        capacity_chars == capacity_bits \div 8
    IN  IF ~CanEncodeUtf8(message) THEN Raise("UnicodeEncodeError")
        ELSE
        LET payload_bytes      == ApplyShift(Utf8Encode(message), password)
            full_payload_bytes == payload_bytes \o Utf8Encode(DELIMITER)
            bits               == BytesToBits(full_payload_bytes)
        IN  IF TooLarge(bits, capacity_bits)
            THEN Return([success  |-> FALSE,
                         message  |-> "Message too large!",
                         capacity |-> capacity_chars,
                         used     |-> Len(full_payload_bytes)])
            ELSE
            LET flat_pixels == EmbedBits(FlatPixels(pixels), bits)
                new_img     == NewImage("RGB", width, height, NewPixels(flat_pixels))
            IN  Save(new_img,
                     [success  |-> TRUE,
                      message  |-> "Message successfully hidden in image!",
                      capacity |-> capacity_chars,
                      used     |-> Len(full_payload_bytes)])

\* mutant: the generic except clause is missing
EncodeExcept_OnlyNotFound(exc) ==
    IF exc = "FileNotFoundError"
    THEN [success |-> FALSE, message |-> "Image file not found.", capacity |-> 0, used |-> 0]
    ELSE [exception |-> exc]

\* the except clauses of encode_message; any other exception propagates
EncodeExcept(exc) ==
    IF exc = "FileNotFoundError"
    THEN [success |-> FALSE, message |-> "Image file not found.", capacity |-> 0, used |-> 0]
    ELSE IF exc \in ExceptionClasses
    THEN [success |-> FALSE, message |-> "Error", capacity |-> 0, used |-> 0]
    ELSE [exception |-> exc]

\* ------------------------------------------------------------ decode_message
\* mutant: the break is missing, the loop chops every delimiter and runs on
RECURSIVE ScanNoBreak(_, _, _, _)
ScanNoBreak(raw_bits, k, payload_bytes, found) ==
    IF 8 * k > Len(raw_bits)
    THEN [found |-> found, payload_bytes |-> payload_bytes, consumed |-> Len(raw_bits)]
    ELSE
    LET delimiter_bytes == Utf8Encode(DELIMITER)
        d     == Len(delimiter_bytes)
        bytes == Append(payload_bytes, ByteOfBits(raw_bits, k))
        n     == Len(bytes)
    IN  IF n >= d /\ SubSeq(bytes, n - d + 1, n) = delimiter_bytes
        THEN ScanNoBreak(raw_bits, k + 1, SubSeq(bytes, 1, n - d), TRUE)
        ELSE ScanNoBreak(raw_bits, k + 1, bytes, found)

ScanLoop_NoBreak(raw_bits, k, payload_bytes) ==
    ScanNoBreak(raw_bits, k, payload_bytes, FALSE)

\* the scan loop of decode_message, taken one full buffer (8 bits) at a time:
\* k - 1 bytes have been accumulated in payload_bytes. Gives whether the
\* delimiter was found, the payload bytes (delimiter chopped off when found)
\* and the number of bits the loop has consumed when it ends
RECURSIVE ScanLoop(_, _, _)
ScanLoop(raw_bits, k, payload_bytes) ==
    IF 8 * k > Len(raw_bits)
    THEN [found |-> FALSE, payload_bytes |-> payload_bytes, consumed |-> Len(raw_bits)]
    ELSE
    LET delimiter_bytes == Utf8Encode(DELIMITER)
        d     == Len(delimiter_bytes)
        bytes == Append(payload_bytes, ByteOfBits(raw_bits, k))
    IN  IF k >= d /\ SubSeq(bytes, k - d + 1, k) = delimiter_bytes
        THEN [found |-> TRUE, payload_bytes |-> SubSeq(bytes, 1, k - d),
              consumed |-> 8 * k]
        ELSE ScanLoop(raw_bits, k + 1, bytes)

\* the number of bytes accumulated when the loop breaks on the delimiter,
\* 0 if the bits run out before that
DelimiterEnd(raw_bits) ==
    LET scan == ScanLoop(raw_bits, 1, <<>>)
    IN  IF scan.found THEN scan.consumed \div 8 ELSE 0

\* mutant: the payload runs up to the last delimiter of the stream
ExtractPayload_UpToLast(raw_bits) ==
    LET delimiter_bytes == Utf8Encode(DELIMITER)
        d      == Len(delimiter_bytes)
        n      == Len(raw_bits) \div 8
        bytes  == [k \in 1..n |-> ByteOfBits(raw_bits, k)]
        ends   == {k \in d..n : SubSeq(bytes, k - d + 1, k) = delimiter_bytes}
    IN  IF ends = {} THEN bytes
        ELSE SubSeq(bytes, 1, (CHOOSE k \in ends : \A l \in ends : l <= k) - d)

\* payload_bytes when the loop ends
ExtractPayload(raw_bits) == ScanLoop(raw_bits, 1, <<>>).payload_bytes

\* mutant: the "if not found" return is missing
DecodeBody_NoFoundCheck(file, password) ==
    IF OpenError(file) # "" THEN Raise(OpenError(file))
    ELSE
    LET raw_bits == RawBits(FlatPixels(ConvertRGB(file)))
    IN  Return([success |-> TRUE,
                message |-> "Message extracted successfully!",
                secret  |-> DecodeText(ReverseShift(ExtractPayload(raw_bits), password))])

\* mutant: the whole byte stream is un-shifted before the delimiter is sought
DecodeBody_UnshiftFirst(file, password) ==
    IF OpenError(file) # "" THEN Raise(OpenError(file))
    ELSE
    LET raw_bits  == RawBits(FlatPixels(ConvertRGB(file)))
        all_bytes == [k \in 1..(Len(raw_bits) \div 8) |-> ByteOfBits(raw_bits, k)]
        unshifted == BytesToBits(ReverseShift(all_bytes, password))
    IN  IF DelimiterEnd(unshifted) = 0
        THEN Return([success |-> FALSE,
                     message |-> "No hidden message found in this image (or wrong password).",
                     secret  |-> None])
        ELSE Return([success |-> TRUE,
                     message |-> "Message extracted successfully!",
                     secret  |-> DecodeText(ExtractPayload(unshifted))])

\* mutant: a payload that is no UTF-8 after the reverse shift is taken for a
\* wrong password and reported as not found
DecodeBody_PasswordChecked(file, password) ==
    IF OpenError(file) # "" THEN Raise(OpenError(file))
    ELSE
    LET raw_bits == RawBits(FlatPixels(ConvertRGB(file)))
        payload  == ReverseShift(ExtractPayload(raw_bits), password)
    IN  IF DelimiterEnd(raw_bits) = 0 \/ ~IsValidUtf8(payload, 1)
        THEN Return([success |-> FALSE,
                     message |-> "No hidden message found in this image (or wrong password).",
                     secret  |-> None])
        ELSE Return([success |-> TRUE,
                     message |-> "Message extracted successfully!",
                     secret  |-> DecodeText(payload)])

\* the body of decode_message's try block
DecodeBody(file, password) ==
    IF OpenError(file) # "" THEN Raise(OpenError(file))
    ELSE
    LET raw_bits == RawBits(FlatPixels(ConvertRGB(file)))
    IN  IF DelimiterEnd(raw_bits) = 0
        THEN Return([success |-> FALSE,
                     message |-> "No hidden message found in this image (or wrong password).",
                     secret  |-> None])
        ELSE Return([success |-> TRUE,
                     message |-> "Message extracted successfully!",
                     secret  |-> DecodeText(ReverseShift(ExtractPayload(raw_bits), password))])

\* the except clauses of decode_message
DecodeExcept(exc) ==
    IF exc = "FileNotFoundError"
    THEN [success |-> FALSE, message |-> "Image file not found.", secret |-> None]
    ELSE IF exc \in ExceptionClasses
    THEN [success |-> FALSE, message |-> "Error", secret |-> None]
    ELSE [exception |-> exc]

\* ------------------------------------------------------------ image_capacity
\* mutant: every band counted, min(channels, 3) forgotten
CapacityBody_AllBands(file) ==
    IF OpenError(file) # "" THEN Raise(OpenError(file))
    ELSE
    LET w              == file.size[1]
        h              == file.size[2]
        capacity_chars == (w * h * BandCount(file.mode)) \div 8
        usable         == capacity_chars - Len(DELIMITER) - 10
    IN  Return([success        |-> TRUE,
                width          |-> w,
                height         |-> h,
                mode           |-> file.mode,
                capacity_chars |-> IF usable > 0 THEN usable ELSE 0])

\* mutant: the delimiter and the margin are not taken off
CapacityBody_NoMargin(file) ==
    IF OpenError(file) # "" THEN Raise(OpenError(file))
    ELSE
    LET w              == file.size[1]
        h              == file.size[2]
        channels       == BandCount(file.mode)
        capacity_bits  == w * h * (IF channels < 3 THEN channels ELSE 3)
        capacity_chars == capacity_bits \div 8
    IN  Return([success        |-> TRUE,
                width          |-> w,
                height         |-> h,
                mode           |-> file.mode,
                capacity_chars |-> capacity_chars])

\* the body of image_capacity's try block
CapacityBody(file) ==
    IF OpenError(file) # "" THEN Raise(OpenError(file))
    ELSE
    LET w              == file.size[1]
        h              == file.size[2]
        channels       == BandCount(file.mode)
        capacity_bits  == w * h * (IF channels < 3 THEN channels ELSE 3)
        capacity_chars == capacity_bits \div 8
        usable         == capacity_chars - Len(DELIMITER) - 10
    IN  Return([success        |-> TRUE,
                width          |-> w,
                height         |-> h,
                mode           |-> file.mode,
                capacity_chars |-> IF usable > 0 THEN usable ELSE 0])

\* the except clause of image_capacity
CapacityExcept(exc) ==
    IF exc \in ExceptionClasses
    THEN [success |-> FALSE, message |-> "Error"]
    ELSE [exception |-> exc]

\* -------------------------------------------------------------------- inputs
Paths      == {"carrier.png", "missing.png", "broken.png", "out.png"}
ImagePaths == {"carrier.png", "missing.png", "broken.png"}
OutPaths   == {"out.png"}

\* "", "hunter2" (shift 200), "UVV" (shift 1)
Passwords == {<<>>, <<104, 117, 110, 116, 101, 114, 50>>, <<85, 86, 86>>}

\* 'a', e-acute (2 bytes), the padlock emoji of the test script (4 bytes)
Chars == {97, 233, 128272}

Repeat(c, n) == [i \in 1..n |-> c]

\* repeated characters; a text holding the delimiter; ";;DMC==", which "UVV"
\* shifts onto the delimiter; a lone surrogate, which str.encode rejects
Messages ==
    {Repeat(c, n) : c \in Chars, n \in 0..MaxRepeat}
    \cup {<<97>> \o DELIMITER \o <<98>>,
          <<59, 59, 68, 77, 67, 61, 61>>,
          <<55296>>}

\* the carriers: the test script's solid colour at every height, and at full
\* height a colour with odd channels, an RGBA and a greyscale image
Carriers ==
    {SolidImage("RGB", 8, h, <<42, 58, 90>>) : h \in 1..MaxHeight}
    \cup {SolidImage("RGB", 8, MaxHeight, <<255, 128, 1>>),
          SolidImage("RGBA", 8, MaxHeight, <<42, 58, 91, 255>>),
          SolidImage("L", 8, MaxHeight, <<77>>)}

\* what new_img.save(output_path) can do: write the file; fail to open it
\* (nothing written); fail after opening it for writing (file truncated)
SaveOutcomes == {"ok", "open_fails", "write_fails"}

\* the output file left behind by a save that failed after opening the file
\* for writing: an existing file has been truncated and is left incomplete; a
\* file the save itself created is removed again by the image library
FileAfterFailedWrite(before) ==
    IF before.kind = "none" THEN NoFile ELSE CorruptFile

\* --------------------------------------------------------------------- state
VARIABLES
    fs,      \* path -> file
    pc,      \* "idle": no call in progress; "done": a call has returned
    call,    \* the arguments of the call that has returned
    result,  \* the dict it returned
    hidden   \* path -> the message and password of the encode that wrote it

vars == <<fs, pc, call, result, hidden>>

NoCall ==
    [op |-> "", image_path |-> "", message |-> None, password |-> None,
     output_path |-> "", save |-> ""]
NoResult == [pending |-> TRUE]
NoHidden == [message |-> None, password |-> None]

Init ==
    /\ \E carrier \in Carriers :
          fs = [p \in Paths |->
                  CASE p = "carrier.png" -> carrier
                    [] p = "broken.png"  -> CorruptFile
                    [] OTHER             -> NoFile]
    /\ pc = "idle"
    /\ call = NoCall
    /\ result = NoResult
    /\ hidden = [p \in Paths |-> NoHidden]

\* ------------------------------------------------------------------- actions
EncodeCall(image_path, message, output_path, password, save) ==
    [op |-> "encode", image_path |-> image_path, message |-> message,
     password |-> password, output_path |-> output_path, save |-> save]

\* encode_message returns without reaching the save: capacity error or exception
EncodeNoSave(image_path, message, output_path, password) ==
    LET body == EncodeBody(fs[image_path], message, password)
    IN  /\ pc = "idle"
        /\ body.kind # "save"
        /\ result' = IF body.kind = "return" THEN body.value ELSE EncodeExcept(body.exc)
        /\ call' = EncodeCall(image_path, message, output_path, password, "none")
        /\ pc' = "done"
        /\ UNCHANGED <<fs, hidden>>

\* encode_message saves the new image and returns success
EncodeSaved(image_path, message, output_path, password) ==
    LET body == EncodeBody(fs[image_path], message, password)
    IN  /\ pc = "idle"
        /\ body.kind = "save"
        /\ fs' = [fs EXCEPT ![output_path] = body.image]
        /\ hidden' = [hidden EXCEPT ![output_path] =
                         [message |-> message, password |-> password]]
        /\ result' = body.value
        /\ call' = EncodeCall(image_path, message, output_path, password, "ok")
        /\ pc' = "done"

\* new_img.save cannot open output_path: nothing is written
EncodeOpenFails(image_path, message, output_path, password) ==
    LET body == EncodeBody(fs[image_path], message, password)
    IN  /\ pc = "idle"
        /\ body.kind = "save"
        /\ result' = EncodeExcept("PermissionError")
        /\ call' = EncodeCall(image_path, message, output_path, password, "open_fails")
        /\ pc' = "done"
        /\ UNCHANGED <<fs, hidden>>

\* new_img.save fails after it has opened output_path for writing
EncodeWriteFails(image_path, message, output_path, password) ==
    LET body == EncodeBody(fs[image_path], message, password)
    IN  /\ pc = "idle"
        /\ body.kind = "save"
        /\ fs' = [fs EXCEPT ![output_path] = FileAfterFailedWrite(fs[output_path])]
        /\ hidden' = [hidden EXCEPT ![output_path] = NoHidden]
        /\ result' = EncodeExcept("OSError")
        /\ call' = EncodeCall(image_path, message, output_path, password, "write_fails")
        /\ pc' = "done"

encode_message(image_path, message, output_path, password) ==
    \/ EncodeNoSave(image_path, message, output_path, password)
    \/ EncodeSaved(image_path, message, output_path, password)
    \/ EncodeOpenFails(image_path, message, output_path, password)
    \/ EncodeWriteFails(image_path, message, output_path, password)

\* mutant: decode writes the RGB-normalised image back over its input
decode_message_WritesBack(image_path, password) ==
    LET body == DecodeBody(fs[image_path], password)
    IN  /\ pc = "idle"
        /\ result' = IF body.kind = "return" THEN body.value ELSE DecodeExcept(body.exc)
        /\ call' = [NoCall EXCEPT !.op = "decode", !.image_path = image_path,
                                  !.password = password]
        /\ pc' = "done"
        /\ fs' = IF fs[image_path].kind = "image"
                 THEN [fs EXCEPT ![image_path] =
                         NewImage("RGB", fs[image_path].size[1], fs[image_path].size[2],
                                  ConvertRGB(fs[image_path]))]
                 ELSE fs
        /\ UNCHANGED hidden

decode_message(image_path, password) ==
    LET body == DecodeBody(fs[image_path], password)
    IN  /\ pc = "idle"
        /\ result' = IF body.kind = "return" THEN body.value ELSE DecodeExcept(body.exc)
        /\ call' = [NoCall EXCEPT !.op = "decode", !.image_path = image_path,
                                  !.password = password]
        /\ pc' = "done"
        /\ UNCHANGED <<fs, hidden>>

image_capacity(image_path) ==
    LET body == CapacityBody(fs[image_path])
    IN  /\ pc = "idle"
        /\ result' = IF body.kind = "return" THEN body.value ELSE CapacityExcept(body.exc)
        /\ call' = [NoCall EXCEPT !.op = "capacity", !.image_path = image_path]
        /\ pc' = "done"
        /\ UNCHANGED <<fs, hidden>>

\* the caller has consumed the result dict; the codec keeps nothing between calls
ReturnToCaller ==
    /\ pc = "done"
    /\ pc' = "idle"
    /\ call' = NoCall
    /\ result' = NoResult
    /\ UNCHANGED <<fs, hidden>>

Next ==
    \/ \E i \in ImagePaths, m \in Messages, o \in OutPaths, p \in Passwords :
          encode_message(i, m, o, p)
    \/ \E i \in Paths, p \in Passwords : decode_message(i, p)
    \/ \E i \in Paths : image_capacity(i)
    \/ ReturnToCaller

Spec == Init /\ [][Next]_vars

\* ============================================================== properties
\* the call of operation op has returned
Returned(op) == pc = "done" /\ call.op = op

\* the number of bits the message and the 7-byte delimiter need
BitsNeeded(message) == 8 * (Len(Utf8Encode(message)) + 7)

\* the number of bits an image offers: width * height * 3
BitsOffered(file) == file.size[1] * file.size[2] * 3

\* encode_message was given a readable image and an encodable message that fits,
\* and the output file could be written
EncodeShouldSucceed ==
    /\ Returned("encode")
    /\ fs[call.image_path].kind = "image"
    /\ CanEncodeUtf8(call.message)
    /\ BitsNeeded(call.message) <= BitsOffered(fs[call.image_path])
    /\ call.save \notin {"open_fails", "write_fails"}

\* decode_message has read a file that a successful encode_message wrote
DecodedStego == Returned("decode") /\ hidden[call.image_path] # NoHidden

\* C1: round trip without password. Every encodable message that fits is
\* encoded successfully with password "", and decoding the output with password
\* "" succeeds and returns exactly that message.
C1_RoundTripNoPassword ==
    /\ (EncodeShouldSucceed /\ call.password = <<>>) => result.success
    /\ (/\ DecodedStego
        /\ hidden[call.image_path].password = <<>>
        /\ call.password = <<>>)
       => (result.success /\ result.secret = hidden[call.image_path].message)

\* C2: round trip with password. Every encodable message that fits is encoded
\* successfully with a non-empty password p, and decoding the output with the
\* same p succeeds and returns exactly that message.
C2_RoundTripWithPassword ==
    /\ (EncodeShouldSucceed /\ call.password # <<>>) => result.success
    /\ (/\ DecodedStego
        /\ hidden[call.image_path].password # <<>>
        /\ call.password = hidden[call.image_path].password)
       => (result.success /\ result.secret = hidden[call.image_path].message)

\* decode_message has succeeded on a stego image with a password whose
\* code-point sum differs mod 256 from that of the encoding password
WrongPasswordSuccess ==
    /\ DecodedStego
    /\ SumOrd(hidden[call.image_path].password) % 256 # SumOrd(call.password) % 256
    /\ result.success

\* C3 as stated: whenever decoding with a password of a different checksum
\* succeeds, the secret differs from the original message.
C3_WrongPasswordDiffers ==
    WrongPasswordSuccess => result.secret # hidden[call.image_path].message

\* C3 as amended: the same, for every non-empty original message (an empty
\* payload has no byte to shift, so every password returns the empty text).
C3_WrongPasswordDiffersNonEmpty ==
    (WrongPasswordSuccess /\ hidden[call.image_path].message # <<>>)
        => result.secret # hidden[call.image_path].message

C3_Witness ==
    /\ WrongPasswordSuccess
    /\ hidden[call.image_path].message # <<>>
    /\ hidden[call.image_path].password # <<>>
    /\ result.secret # hidden[call.image_path].message

\* encode_message is returning from a call on a readable image with an
\* encodable message (a step from idle to done)
EncodeStepOnImage ==
    /\ pc = "idle"
    /\ pc' = "done"
    /\ call'.op = "encode"
    /\ fs[call'.image_path].kind = "image"
    /\ CanEncodeUtf8(call'.message)

\* C4: capacity rejection. When the message and delimiter need more bits than
\* width*height*3, encode_message fails with the capacity error and no file
\* changes; when they need at most that many (equal included), the capacity
\* error is not returned.
C4_CapacityRejection ==
    [][EncodeStepOnImage =>
        IF BitsNeeded(call'.message) > BitsOffered(fs[call'.image_path])
        THEN /\ result'.success = FALSE
             /\ result'.message = "Message too large!"
             /\ fs' = fs
        ELSE result'.message # "Message too large!"]_vars

\* the capacity error was returned while an earlier output file exists
C4_Witness ==
    /\ Returned("encode")
    /\ result.message = "Message too large!"
    /\ fs["out.png"].kind = "image"

\* a message filled the image exactly and was not rejected
C4_WitnessExact ==
    /\ Returned("encode")
    /\ result.success
    /\ BitsNeeded(call.message) = BitsOffered(fs[call.image_path])

\* the LSB stream decode_message reads from the file of the returned call
StreamOf(file) == RawBits(FlatPixels(ConvertRGB(file)))

\* the transform pair applied to bytes b with password p: same length, each byte
\* (b[i] + sum mod 256) mod 256, and the reverse shift gives b back
ShiftRoundTrip(b, p) ==
    LET x == ApplyShift(b, p)
    IN  /\ Len(x) = Len(b)
        /\ \A i \in 1..Len(b) : x[i] = (b[i] + (SumOrd(p) % 256)) % 256
        /\ Len(ReverseShift(x, p)) = Len(b)
        /\ \A i \in 1..Len(b) : ReverseShift(x, p)[i] = b[i]

\* C5: the password transform is length-preserving and invertible, for the
\* bytes of every message encode_message is given and for the bytes
\* decode_message extracts, under the password of the call.
C5_ShiftInvertible ==
    /\ (Returned("encode") /\ CanEncodeUtf8(call.message))
          => ShiftRoundTrip(Utf8Encode(call.message), call.password)
    /\ (Returned("decode") /\ result.success)
          => ShiftRoundTrip(ExtractPayload(StreamOf(fs[call.image_path])), call.password)

\* a non-empty password was applied and a byte wrapped around 256
C5_Witness ==
    /\ Returned("encode")
    /\ result.success
    /\ call.password # <<>>
    /\ \E i \in 1..Len(Utf8Encode(call.message)) :
          Utf8Encode(call.message)[i] + (SumOrd(call.password) % 256) >= 256

\* C6: the empty password is a no-op. After a successful encode with password
\* "", the channel LSBs of the output spell utf8(message) followed by the
\* delimiter, MSB first; decode with password "" returns the text of exactly
\* the bytes that precede the delimiter in the stream.
C6_EmptyPasswordNoOp ==
    /\ (Returned("encode") /\ result.success /\ call.password = <<>>)
          => LET embedded == Utf8Encode(call.message) \o <<60, 60, 69, 78, 68, 62, 62>>
                 flat     == FlatPixels(fs[call.output_path].data)
             IN  \A n \in 1..(8 * Len(embedded)) :
                    flat[n] % 2
                      = (embedded[((n - 1) \div 8) + 1] \div (2 ^ (7 - ((n - 1) % 8)))) % 2
    /\ (Returned("decode") /\ result.success /\ call.password = <<>>)
          => result.secret = DecodeText(ExtractPayload(StreamOf(fs[call.image_path])))

C6_Witness ==
    /\ Returned("encode")
    /\ result.success
    /\ call.password = <<>>
    /\ Len(call.message) > 0

\* the capacity formula of the claim, for an image of w x h pixels and c bands
ClaimedCapacity(w, h, c) ==
    LET raw == ((w * h * (IF c < 3 THEN c ELSE 3)) \div 8) - 7 - 10
    IN  IF raw > 0 THEN raw ELSE 0

\* C7: image_capacity of a readable image returns
\* max(floor(w*h*min(bands,3)/8) - 17, 0); the value is never negative and no
\* carrier with the same band count and at least as many pixels has less.
C7_CapacityFormula ==
    (Returned("capacity") /\ fs[call.image_path].kind = "image")
       => LET img == fs[call.image_path]
          IN  /\ result.success
              /\ result.capacity_chars
                   = ClaimedCapacity(img.size[1], img.size[2], BandCount(img.mode))
              /\ result.capacity_chars >= 0
              /\ \A other \in Carriers :
                    (/\ BandCount(other.mode) = BandCount(img.mode)
                     /\ other.size[1] * other.size[2] >= img.size[1] * img.size[2])
                    => CapacityBody(other).value.capacity_chars >= result.capacity_chars

\* a four-band image was measured and has room left after the margin
C7_Witness ==
    /\ Returned("capacity")
    /\ fs[call.image_path].mode = "RGBA"
    /\ result.capacity_chars > 0

\* C8: capacity headroom. A message of exactly capacity_chars characters (as
\* image_capacity reports for the image) is never rejected with the capacity
\* error.
C8_CapacityHeadroom ==
    (/\ Returned("encode")
     /\ fs[call.image_path].kind = "image"
     /\ CanEncodeUtf8(call.message)
     /\ Len(call.message) = CapacityBody(fs[call.image_path]).value.capacity_chars)
    => result.message # "Message too large!"

\* C9: a failed encode leaves the output untouched, and files change only in
\* runs that return success.
C9_FailedEncodeUntouched ==
    [][(pc = "idle" /\ pc' = "done" /\ call'.op = "encode")
        => /\ (result'.success = FALSE => fs' = fs)
           /\ (fs' # fs => result'.success = TRUE)]_vars

\* C10: no exception escapes. Every returned result is a dict with a success
\* flag; a nonexistent image path gives success=false with the not-found
\* message, and capacity=0/used=0 (encode) or secret=None (decode).
C10_NoExceptionEscapes ==
    pc = "done" =>
       /\ "success" \in DOMAIN result
       /\ (call.op \in {"encode", "decode"} /\ fs[call.image_path].kind = "none")
             => /\ result.success = FALSE
                /\ result.message = "Image file not found."
                /\ (call.op = "encode" => result.capacity = 0 /\ result.used = 0)
                /\ (call.op = "decode" => result.secret = None)

\* encode_message was given an unreadable image and a message that cannot be encoded
C10_Witness ==
    /\ Returned("encode")
    /\ fs[call.image_path].kind = "corrupt"
    /\ ~CanEncodeUtf8(call.message)
    /\ result.success = FALSE

\* ------------------------------------------------- the stream, byte by byte
\* the k-th group of 8 bits of a stream, most significant bit first
AlignedByte(stream, k) ==
    LET bit(j) == stream[8 * (k - 1) + j]
    IN  bit(1) * 128 + bit(2) * 64 + bit(3) * 32 + bit(4) * 16
        + bit(5) * 8 + bit(6) * 4 + bit(7) * 2 + bit(8)

\* "<<END>>" ends at the k-th full byte of the stream
DelimiterEndsAt(stream, k) ==
    /\ k >= 7
    /\ k <= Len(stream) \div 8
    /\ \A j \in 1..7 :
          AlignedByte(stream, k - 7 + j) = <<60, 60, 69, 78, 68, 62, 62>>[j]

\* the earliest byte at which the delimiter ends, 0 if it never does
FirstDelimiter(stream) ==
    LET ends == {k \in 7..(Len(stream) \div 8) : DelimiterEndsAt(stream, k)}
    IN  IF ends = {} THEN 0 ELSE CHOOSE k \in ends : \A m \in ends : k <= m

\* decode_message has returned from a readable image
DecodedImage == Returned("decode") /\ fs[call.image_path].kind = "image"

\* C11: no message found. When the channel LSB stream, read 8 bits at a time,
\* never has the delimiter as the last 7 bytes, decode_message returns
\* success=false with the no-message status and secret=None, whatever the
\* password.
C11_NoMessageFound ==
    (/\ DecodedImage
     /\ \A k \in 1..(Len(StreamOf(fs[call.image_path])) \div 8) :
           ~DelimiterEndsAt(StreamOf(fs[call.image_path]), k))
    => /\ result.success = FALSE
       /\ result.message = "No hidden message found in this image (or wrong password)."
       /\ result.secret = None

\* a plain carrier of at least 7 bytes was decoded with a password
C11_Witness ==
    /\ DecodedImage
    /\ call.password # <<>>
    /\ Len(StreamOf(fs[call.image_path])) >= 56
    /\ result.success = FALSE
    /\ result.secret = None

\* the bytes before the first delimiter of the stream, each shifted back by
\* the checksum of the password
UnshiftedPayload(stream, password) ==
    [i \in 1..(FirstDelimiter(stream) - 7) |->
        (AlignedByte(stream, i) - (SumOrd(password) % 256)) % 256]

\* C12: undecodable bytes do not fail decode. Whenever the delimiter is found,
\* decode_message returns success=true for every password; the secret is the
\* UTF-8 text of the un-shifted bytes when they are valid UTF-8 (its encoding
\* is those bytes), and otherwise has one character per byte, of the same value.
C12_UndecodableBytesSucceed ==
    (DecodedImage /\ FirstDelimiter(StreamOf(fs[call.image_path])) # 0)
    => LET b == UnshiftedPayload(StreamOf(fs[call.image_path]), call.password)
       IN  /\ result.success = TRUE
           /\ IsValidUtf8(b, 1)
                => (CanEncodeUtf8(result.secret) /\ Utf8Encode(result.secret) = b)
           /\ ~IsValidUtf8(b, 1)
                => (/\ Len(result.secret) = Len(b)
                    /\ \A i \in 1..Len(b) : result.secret[i] = b[i])

\* a wrong password left bytes that are not UTF-8, and decode still succeeded
C12_Witness ==
    /\ DecodedImage
    /\ FirstDelimiter(StreamOf(fs[call.image_path])) # 0
    /\ ~IsValidUtf8(UnshiftedPayload(StreamOf(fs[call.image_path]), call.password), 1)
    /\ result.success = TRUE

\* C13: encode result counts. On success and on the capacity error,
\* used = len(utf8(message)) + 7 and capacity = floor(width*height*3/8).
C13_EncodeCounts ==
    (/\ Returned("encode")
     /\ result.success \/ result.message = "Message too large!")
    => /\ result.used = Len(Utf8Encode(call.message)) + 7
       /\ result.capacity
            = (fs[call.image_path].size[1] * fs[call.image_path].size[2] * 3) \div 8

\* the capacity error was returned for a multi-byte message under a password
C13_Witness ==
    /\ Returned("encode")
    /\ result.message = "Message too large!"
    /\ call.password # <<>>
    /\ Len(Utf8Encode(call.message)) > Len(call.message)
    /\ result.used = Len(Utf8Encode(call.message)) + 7

\* C14: read-only queries. No step of decode_message or image_capacity
\* creates, changes or deletes a file.
C14_ReadOnlyQueries ==
    [][(pc = "idle" /\ pc' = "done" /\ call'.op \in {"decode", "capacity"})
          => fs' = fs]_vars

\* a grey-scale source was decoded after an output file had been written
C14_Witness ==
    /\ Returned("decode")
    /\ call.image_path = "carrier.png"
    /\ fs["carrier.png"].mode = "L"
    /\ fs["out.png"].kind = "image"

\* bit n (from 1) of the MSB-first expansion of a byte sequence
ExpandedBit(bytes, n) ==
    (bytes[((n - 1) \div 8) + 1] \div (2 ^ (7 - ((n - 1) % 8)))) % 2

\* the bytes the claims say are embedded: utf8(message), each byte moved on by
\* the checksum of the password, then the bytes of "<<END>>" as they are
ClaimedEmbedded(message, password) ==
    [i \in 1..Len(Utf8Encode(message)) |->
        (Utf8Encode(message)[i] + (SumOrd(password) % 256)) % 256]
    \o <<60, 60, 69, 78, 68, 62, 62>>

\* encode_message has saved an output image
EncodedOutput == Returned("encode") /\ result.success

\* C17: embedded bit layout. After a successful encode, for every i below
\* 8*(len(payload)+7) the LSB of the i-th channel value of the output (scan
\* order, R then G then B) is bit i of the MSB-first expansion of the shifted
\* payload bytes followed by "<<END>>".
C17_EmbeddedBitLayout ==
    EncodedOutput
    => LET embedded == ClaimedEmbedded(call.message, call.password)
           flat     == FlatPixels(fs[call.output_path].data)
       IN  /\ 8 * Len(embedded) <= Len(flat)
           /\ \A n \in 1..(8 * Len(embedded)) : flat[n] % 2 = ExpandedBit(embedded, n)

\* a shifted multi-byte payload was embedded in a carrier with odd channels
C17_Witness ==
    /\ EncodedOutput
    /\ call.password # <<>>
    /\ Len(Utf8Encode(call.message)) > Len(call.message)
    /\ \E n \in 1..3 : FlatPixels(ConvertRGB(fs[call.image_path]))[n] % 2 = 1

\* C18: encode changes only the embedded LSBs. The output has the size of the
\* RGB-normalised input; channel values past the embedded bits are the
\* input's; the others keep their upper 7 bits.
C18_OnlyLsbsChange ==
    EncodedOutput
    => LET before == FlatPixels(ConvertRGB(fs[call.image_path]))
           after  == FlatPixels(fs[call.output_path].data)
           nbits  == 8 * (Len(Utf8Encode(call.message)) + 7)
       IN  /\ fs[call.output_path].size = fs[call.image_path].size
           /\ fs[call.output_path].mode = "RGB"
           /\ Len(fs[call.output_path].data)
                = fs[call.image_path].size[1] * fs[call.image_path].size[2]
           /\ Len(after) = Len(before)
           /\ \A n \in 1..Len(before) :
                 IF n > nbits
                 THEN after[n] = before[n]
                 ELSE /\ after[n] \div 2 = before[n] \div 2
                      /\ after[n] - before[n] \in {-1, 0, 1}

\* channels with the last bit set lie past the embedded bits, and an embedded
\* channel changed
C18_Witness ==
    /\ EncodedOutput
    /\ LET before == FlatPixels(ConvertRGB(fs[call.image_path]))
           after  == FlatPixels(fs[call.output_path].data)
           nbits  == 8 * (Len(Utf8Encode(call.message)) + 7)
       IN  /\ \E n \in (nbits + 1)..Len(before) : before[n] % 2 = 1
           /\ \E n \in 1..nbits : after[n] # before[n]

\* C19: decode stops at the first delimiter. The loop tests for the delimiter
\* after each completed byte only, breaks at the earliest byte where the last 7
\* bytes are "<<END>>" having consumed no bit beyond it, and the payload is
\* the bytes before those 7.
C19_StopsAtFirstDelimiter ==
    (DecodedImage /\ FirstDelimiter(StreamOf(fs[call.image_path])) # 0)
    => LET stream == StreamOf(fs[call.image_path])
           first  == FirstDelimiter(stream)
           scan   == ScanLoop(stream, 1, <<>>)
           before == [i \in 1..(first - 7) |-> AlignedByte(stream, i)]
       IN  /\ scan.found
           /\ scan.consumed = 8 * first
           /\ scan.payload_bytes = before
           /\ result.success
           /\ result.secret = DecodeText(ReverseShift(before, call.password))

\* the stream holds a second delimiter and further bits after the first
C19_Witness ==
    /\ DecodedImage
    /\ result.success
    /\ LET stream == StreamOf(fs[call.image_path])
       IN  /\ \E k \in 1..(Len(stream) \div 8) :
                 k > FirstDelimiter(stream) /\ DelimiterEndsAt(stream, k)
           /\ ScanLoop(stream, 1, <<>>).consumed < Len(stream)

\* C20: delimiter before un-shift. Encode appends the delimiter bytes
\* unshifted after the shifted payload; decode finds the delimiter in the
\* stream as stored, whatever the password, and applies the reverse shift to
\* exactly the bytes before it.
C20_DelimiterBeforeUnshift ==
    /\ EncodedOutput
       => LET n      == Len(Utf8Encode(call.message))
              stream == StreamOf(fs[call.output_path])
          IN  \A j \in 1..7 :
                 AlignedByte(stream, n + j) = <<60, 60, 69, 78, 68, 62, 62>>[j]
    /\ DecodedImage
       => LET stream == StreamOf(fs[call.image_path])
          IN  /\ result.success = (FirstDelimiter(stream) # 0)
              /\ result.success
                    => result.secret
                         = DecodeText(UnshiftedPayload(stream, call.password))

\* a stego image made with a password was decoded with that password
C20_Witness ==
    /\ DecodedStego
    /\ call.password # <<>>
    /\ hidden[call.image_path].password = call.password
    /\ Len(hidden[call.image_path].message) > 0
    /\ result.success
    /\ result.secret = hidden[call.image_path].message

\* ================================================================== drivers
\* The three front ends (cli.py, app.py, server.py) as callers of
\* encode_message.  The state is that of the codec: call and result are those
\* of the encode_message call a driver makes, or record the driver's own
\* refusal; the server's request between its upload and its encode_message
\* call is held in call with op "api_encode".

\* str.isspace for one code point
IsSpace(c) ==
    \/ c \in 9..13
    \/ c \in 28..32
    \/ c \in {133, 160, 5760, 8232, 8233, 8239, 8287, 12288}
    \/ c \in 8192..8202

RECURSIVE LStrip(_)
LStrip(text) ==
    IF text # <<>> /\ IsSpace(Head(text)) THEN LStrip(Tail(text)) ELSE text

RECURSIVE RStrip(_)
RStrip(text) ==
    IF text # <<>> /\ IsSpace(text[Len(text)])
    THEN RStrip(SubSeq(text, 1, Len(text) - 1))
    ELSE text

\* str.strip() of a text
Strip(text) == RStrip(LStrip(text))

\* str.strip() of a path field: the fields offered hold a path, nothing or blanks
StripPath(field) == IF field = "  " THEN "" ELSE field

\* the server's temporary files: tmp_in.name and in_path + "_stego.png"
TmpIn  == "tmp8x2k.png"
TmpOut == "tmp8x2k.png_stego.png"

DriverPaths == Paths \cup {TmpIn, TmpOut}

\* "", blanks only, " a\n", "a"
DriverMessages == {<<>>, <<32, 10>>, <<32, 97, 10>>, <<97>>}

DriverPasswords == {<<>>, <<104, 117, 110, 116, 101, 114, 50>>}

\* what the GUI's path fields can hold
ImageFields  == {"", "  ", "carrier.png", "missing.png"}
OutputFields == {"", "  ", "out.png"}

\* what a client can upload: images of 8x1 and 8xMaxHeight, and bytes that are
\* no image
Uploads ==
    {SolidImage("RGB", 8, 1, <<42, 58, 90>>),
     SolidImage("RGB", 8, MaxHeight, <<42, 58, 90>>),
     CorruptFile}

InitDrivers ==
    /\ fs = [p \in DriverPaths |->
               IF p = "carrier.png"
               THEN SolidImage("RGB", 8, MaxHeight, <<42, 58, 90>>)
               ELSE NoFile]
    /\ pc = "idle"
    /\ call = NoCall
    /\ result = NoResult
    /\ hidden = [p \in DriverPaths |-> NoHidden]

\* a driver refuses the request itself; encode_message is not called
Refuse(driver, response) ==
    /\ pc = "idle"
    /\ call = NoCall
    /\ pc' = "done"
    /\ call' = [NoCall EXCEPT !.op = driver]
    /\ result' = response
    /\ UNCHANGED <<fs, hidden>>

\* cli.py: the parsed arguments go to encode_message as they are
cmd_encode(image, message, output, password) ==
    /\ call = NoCall
    /\ encode_message(image, message, output, password)

\* app.py: the fields are stripped and checked, then encode_message is called
_do_encode_refused(img_field, text, out_field) ==
    /\ \/ StripPath(img_field) = ""
       \/ Strip(text) = <<>>
       \/ StripPath(out_field) = ""
    /\ Refuse("_do_encode",
              [warning |-> IF StripPath(img_field) = "" THEN "Please select a carrier image."
                           ELSE IF Strip(text) = <<>> THEN "Please enter a secret message."
                           ELSE "Please specify an output file."])

_do_encode_call(img_field, text, out_field, password) ==
    /\ call = NoCall
    /\ StripPath(img_field) # ""
    /\ Strip(text) # <<>>
    /\ StripPath(out_field) # ""
    /\ encode_message(StripPath(img_field), Strip(text), StripPath(out_field), password)

_do_encode(img_field, text, out_field, password) ==
    \/ _do_encode_refused(img_field, text, out_field)
    \/ _do_encode_call(img_field, text, out_field, password)

\* server.py: the request is checked, then the upload is saved to in_path
api_encode_refused(has_image, message) ==
    /\ ~has_image \/ Strip(message) = <<>>
    /\ Refuse("api_encode",
              [success |-> FALSE, status |-> 400,
               message |-> IF ~has_image THEN "No image provided"
                           ELSE "Message cannot be empty"])

api_encode_upload(has_image, upload, message, password) ==
    /\ pc = "idle"
    /\ call = NoCall
    /\ has_image
    /\ Strip(message) # <<>>
    /\ fs' = [fs EXCEPT ![TmpIn] = upload]
    /\ call' = [op |-> "api_encode", image_path |-> TmpIn, message |-> message,
                password |-> password, output_path |-> TmpOut, save |-> ""]
    /\ UNCHANGED <<pc, result, hidden>>

\* server.py: result = encode_message(in_path, message, out_path, password)
api_encode_try ==
    /\ call.op = "api_encode"
    /\ encode_message(call.image_path, call.message, call.output_path, call.password)

\* server.py: the response is sent and the finally clause unlinks both files
api_encode_finally ==
    /\ pc = "done"
    /\ call.op = "encode"
    /\ call.image_path = TmpIn
    /\ fs' = [fs EXCEPT ![TmpIn] = NoFile, ![TmpOut] = NoFile]
    /\ hidden' = [hidden EXCEPT ![TmpOut] = NoHidden]
    /\ pc' = "idle"
    /\ call' = NoCall
    /\ result' = NoResult

\* server.py: file.save(tmp.name) raises (disk full, I/O error) inside the
\* with block, before the try: the handler ends with the exception and the
\* file NamedTemporaryFile(delete=False) created stays, incomplete
UploadFails(handler) ==
    /\ pc = "idle"
    /\ call = NoCall
    /\ fs' = [fs EXCEPT ![TmpIn] = CorruptFile]
    /\ pc' = "done"
    /\ call' = [NoCall EXCEPT !.op = handler]
    /\ result' = [exception |-> "OSError"]
    /\ UNCHANGED hidden

api_encode_upload_fails(has_image, message) ==
    /\ has_image
    /\ Strip(message) # <<>>
    /\ UploadFails("api_encode")

\* server.py, /api/info
api_info_refused(has_image) ==
    /\ ~has_image
    /\ Refuse("api_info", [success |-> FALSE, status |-> 400,
                           message |-> "No image provided"])

api_info_upload(has_image, upload) ==
    /\ pc = "idle"
    /\ call = NoCall
    /\ has_image
    /\ fs' = [fs EXCEPT ![TmpIn] = upload]
    /\ call' = [NoCall EXCEPT !.op = "api_info", !.image_path = TmpIn]
    /\ UNCHANGED <<pc, result, hidden>>

api_info_upload_fails(has_image) ==
    /\ has_image
    /\ UploadFails("api_info")

\* result = image_capacity(tmp_path)
api_info_try ==
    /\ call.op = "api_info"
    /\ image_capacity(call.image_path)

\* the preview is made (Image.open raises on bytes that are no image), the
\* response or the exception leaves the handler, the finally clause unlinks
api_info_finally ==
    /\ pc = "done"
    /\ call.op = "capacity"
    /\ call.image_path = TmpIn
    /\ fs' = [fs EXCEPT ![TmpIn] = NoFile]
    /\ pc' = "idle"
    /\ call' = NoCall
    /\ result' = NoResult
    /\ UNCHANGED hidden

\* server.py, /api/decode
api_decode_refused(has_image) ==
    /\ ~has_image
    /\ Refuse("api_decode", [success |-> FALSE, status |-> 400,
                             message |-> "No image provided"])

api_decode_upload(has_image, upload, password) ==
    /\ pc = "idle"
    /\ call = NoCall
    /\ has_image
    /\ fs' = [fs EXCEPT ![TmpIn] = upload]
    /\ call' = [NoCall EXCEPT !.op = "api_decode", !.image_path = TmpIn,
                              !.password = password]
    /\ UNCHANGED <<pc, result, hidden>>

api_decode_upload_fails(has_image) ==
    /\ has_image
    /\ UploadFails("api_decode")

\* result = decode_message(tmp_path, password)
api_decode_try ==
    /\ call.op = "api_decode"
    /\ decode_message(call.image_path, call.password)

api_decode_finally ==
    /\ pc = "done"
    /\ call.op = "decode"
    /\ call.image_path = TmpIn
    /\ fs' = [fs EXCEPT ![TmpIn] = NoFile]
    /\ pc' = "idle"
    /\ call' = NoCall
    /\ result' = NoResult
    /\ UNCHANGED hidden

\* the CLI process exits; the GUI handler returns to the event loop
DriverReturns ==
    /\ call.image_path # TmpIn
    /\ ReturnToCaller

NextDrivers ==
    \/ \E i \in {"carrier.png", "missing.png"}, m \in DriverMessages,
          o \in OutPaths, p \in DriverPasswords :
          cmd_encode(i, m, o, p)
    \/ \E i \in ImageFields, m \in DriverMessages, o \in OutputFields, p \in DriverPasswords :
          _do_encode(i, m, o, p)
    \/ \E h \in BOOLEAN, m \in DriverMessages : api_encode_refused(h, m)
    \/ \E h \in BOOLEAN, u \in Uploads, m \in DriverMessages, p \in DriverPasswords :
          api_encode_upload(h, u, m, p)
    \/ \E h \in BOOLEAN, m \in DriverMessages : api_encode_upload_fails(h, m)
    \/ api_encode_try
    \/ api_encode_finally
    \/ \E h \in BOOLEAN : api_info_refused(h)
    \/ \E h \in BOOLEAN, u \in Uploads : api_info_upload(h, u)
    \/ \E h \in BOOLEAN : api_info_upload_fails(h)
    \/ api_info_try
    \/ api_info_finally
    \/ \E h \in BOOLEAN : api_decode_refused(h)
    \/ \E h \in BOOLEAN, u \in Uploads, p \in DriverPasswords : api_decode_upload(h, u, p)
    \/ \E h \in BOOLEAN : api_decode_upload_fails(h)
    \/ api_decode_try
    \/ api_decode_finally
    \/ DriverReturns

SpecDrivers == InitDrivers /\ [][NextDrivers]_vars

\* C16: empty messages never reach encode. In every driver (GUI, web server,
\* CLI) a request with an empty message is refused before encode_message is
\* called: encode_message is never invoked with an empty message.
C16_EmptyNeverReachesEncode ==
    (pc = "done" /\ call.op = "encode") => call.message # <<>>

\* ============================================================== concurrency
\* Calls of encode_message and decode_message made by different threads at the
\* same time.  Here pc, call and result are functions of the thread; a call is
\* cut where it touches the file system: encode_message reads image_path
\* (line 48), opens output_path for writing, which truncates it (line 97),
\* and completes the file (line 97); decode_message reads image_path (line 122).

Threads == {"t1", "t2"}

ConcPaths == {"carrier.png", "a.png", "b.png"}

\* the files before the calls: a carrier, no a.png, a stego image b.png
ConcFiles ==
    [p \in ConcPaths |->
        CASE p = "carrier.png" -> SolidImage("RGB", 8, MaxHeight, <<42, 58, 90>>)
          [] p = "b.png" ->
                EncodeBody(SolidImage("RGB", 8, MaxHeight, <<42, 58, 90>>),
                           <<98>>, <<>>).image
          [] OTHER -> NoFile]

\* the calls a thread can make
ConcCalls ==
    {EncodeCall(i, m, o, p, "ok") :
        i \in ConcPaths, m \in {<<97>>, <<233>>}, o \in {"a.png", "b.png"}, p \in {<<>>}}
    \cup {[NoCall EXCEPT !.op = "decode", !.image_path = i, !.password = <<>>] :
            i \in ConcPaths}

InitConc ==
    /\ fs = ConcFiles
    /\ pc = [t \in Threads |-> "start"]
    /\ call \in [Threads -> ConcCalls]
    /\ result = [t \in Threads |-> NoResult]
    /\ hidden = [p \in ConcPaths |->
                   IF p = "b.png" THEN [message |-> <<98>>, password |-> <<>>]
                   ELSE NoHidden]

\* encode_message up to the save: the image is read and the new image built
ThreadEncodeReturns(t) ==
    LET body == EncodeBody(fs[call[t].image_path], call[t].message, call[t].password)
    IN  /\ pc[t] = "start"
        /\ call[t].op = "encode"
        /\ body.kind # "save"
        /\ result' = [result EXCEPT ![t] =
                         IF body.kind = "return" THEN body.value
                         ELSE EncodeExcept(body.exc)]
        /\ pc' = [pc EXCEPT ![t] = "done"]
        /\ UNCHANGED <<fs, call, hidden>>

ThreadEncodeBuilds(t) ==
    LET body == EncodeBody(fs[call[t].image_path], call[t].message, call[t].password)
    IN  /\ pc[t] = "start"
        /\ call[t].op = "encode"
        /\ body.kind = "save"
        /\ result' = [result EXCEPT ![t] =
                         [pending |-> TRUE, new_img |-> body.image, value |-> body.value]]
        /\ pc' = [pc EXCEPT ![t] = "save"]
        /\ UNCHANGED <<fs, call, hidden>>

\* new_img.save opens output_path for writing: the file is there, incomplete
ThreadSaveOpens(t) ==
    /\ pc[t] = "save"
    /\ fs' = [fs EXCEPT ![call[t].output_path] = CorruptFile]
    /\ hidden' = [hidden EXCEPT ![call[t].output_path] = NoHidden]
    /\ pc' = [pc EXCEPT ![t] = "write"]
    /\ UNCHANGED <<call, result>>

\* mutant: the image to save is kept in a buffer that all calls share
ThreadSaveWrites_SharedBuffer(t) ==
    /\ pc[t] = "write"
    /\ \E u \in Threads :
          /\ pc[u] \in {"save", "write"}
          /\ fs' = [fs EXCEPT ![call[t].output_path] = result[u].new_img]
    /\ hidden' = [hidden EXCEPT ![call[t].output_path] =
                     [message |-> call[t].message, password |-> call[t].password]]
    /\ result' = [result EXCEPT ![t] = result[t].value]
    /\ pc' = [pc EXCEPT ![t] = "done"]
    /\ UNCHANGED call

\* new_img.save completes the file and encode_message returns its dict
ThreadSaveWrites(t) ==
    /\ pc[t] = "write"
    /\ fs' = [fs EXCEPT ![call[t].output_path] = result[t].new_img]
    /\ hidden' = [hidden EXCEPT ![call[t].output_path] =
                     [message |-> call[t].message, password |-> call[t].password]]
    /\ result' = [result EXCEPT ![t] = result[t].value]
    /\ pc' = [pc EXCEPT ![t] = "done"]
    /\ UNCHANGED call

\* decode_message: the image is read and the dict returned
ThreadDecode(t) ==
    LET body == DecodeBody(fs[call[t].image_path], call[t].password)
    IN  /\ pc[t] = "start"
        /\ call[t].op = "decode"
        /\ result' = [result EXCEPT ![t] =
                         IF body.kind = "return" THEN body.value
                         ELSE DecodeExcept(body.exc)]
        /\ pc' = [pc EXCEPT ![t] = "done"]
        /\ UNCHANGED <<fs, call, hidden>>

NextConc ==
    \E t \in Threads :
        \/ ThreadEncodeReturns(t)
        \/ ThreadEncodeBuilds(t)
        \/ ThreadSaveOpens(t)
        \/ ThreadSaveWrites(t)
        \/ ThreadDecode(t)

SpecConc == InitConc /\ [][NextConc]_vars

\* the dict a call returns when it runs alone on the files as they were
AloneResult(c) ==
    IF c.op = "encode"
    THEN LET body == EncodeBody(ConcFiles[c.image_path], c.message, c.password)
         IN  IF body.kind = "raise" THEN EncodeExcept(body.exc) ELSE body.value
    ELSE LET body == DecodeBody(ConcFiles[c.image_path], c.password)
         IN  IF body.kind = "raise" THEN DecodeExcept(body.exc) ELSE body.value

\* the output file an encode call leaves when it runs alone
AloneOutput(c) ==
    LET body == EncodeBody(ConcFiles[c.image_path], c.message, c.password)
    IN  IF body.kind = "save" THEN body.image ELSE ConcFiles[c.output_path]

\* thread t has returned what it returns alone, and its output file is the same
SameAsAlone(t) ==
    /\ result[t] = AloneResult(call[t])
    /\ call[t].op = "encode" => fs[call[t].output_path] = AloneOutput(call[t])

\* the encode calls write different output files
DifferentOutputs ==
    \A t, u \in Threads :
        (t # u /\ call[t].op = "encode" /\ call[u].op = "encode")
        => call[t].output_path # call[u].output_path

\* no call reads a file that another call writes
NoSharedFile ==
    \A t, u \in Threads :
        (t # u /\ call[u].op = "encode") => call[t].image_path # call[u].output_path

\* C15 (as stated): independent concurrent calls. When the concurrent calls
\* write different output files, every interleaving gives each call the
\* result and the output file it has when run alone.
C15_IndependentCalls ==
    DifferentOutputs => \A t \in Threads : pc[t] = "done" => SameAsAlone(t)

\* C15 (amended): the same, for calls that write different output files and
\* of which none reads a file that another one writes.
C15_IndependentCallsDisjoint ==
    (DifferentOutputs /\ NoSharedFile)
    => \A t \in Threads : pc[t] = "done" => SameAsAlone(t)

\* an encode has returned while another encode is in the middle of its save
C15_Witness ==
    /\ DifferentOutputs /\ NoSharedFile
    /\ \E t, u \in Threads :
          /\ pc[t] = "done" /\ call[t].op = "encode" /\ result[t].success
          /\ pc[u] = "write" /\ call[u].op = "encode"
          /\ call[t].message # call[u].message

\* ============================================================ bit serializer
\* The module's two helpers _text_to_bits and _bits_to_text, applied one
\* after the other.  call holds the text given to _text_to_bits, result the
\* bits it returned and then the text _bits_to_text made of them.

MaxText == 3

\* bits = []; for byte in text.encode("utf-8"): for i in range(7, -1, -1): ...
_text_to_bits(text) == BytesToBits(Utf8Encode(text))

\* groups of 8 bits, a shorter last group dropped, chars.append(chr(byte))
_bits_to_text(bits) ==
    [k \in 1..(Len(bits) \div 8) |-> ByteOfBits(bits, k)]

\* the texts of up to MaxText characters of 1, 2 and 4 bytes
Texts == UNION {[1..n -> Chars] : n \in 0..MaxText}

\* bits that may follow the last full group
TrailingBits == {<<>>, <<1>>, <<0, 1, 1, 0, 1, 0, 1>>}

InitBits ==
    /\ fs = [p \in Paths |-> NoFile]
    /\ hidden = [p \in Paths |-> NoHidden]
    /\ pc = "idle"
    /\ call = NoCall
    /\ result = NoResult

call_text_to_bits(text) ==
    /\ pc = "idle"
    /\ call' = [NoCall EXCEPT !.op = "_text_to_bits", !.message = text]
    /\ result' = [bits |-> _text_to_bits(text)]
    /\ pc' = "bits"
    /\ UNCHANGED <<fs, hidden>>

call_bits_to_text(trailing) ==
    /\ pc = "bits"
    /\ call' = [call EXCEPT !.op = "_bits_to_text"]
    /\ result' = [bits |-> result.bits \o trailing,
                  text |-> _bits_to_text(result.bits \o trailing)]
    /\ pc' = "text"
    /\ UNCHANGED <<fs, hidden>>

NextBits ==
    \/ \E text \in Texts : call_text_to_bits(text)
    \/ \E trailing \in TrailingBits : call_bits_to_text(trailing)

SpecBits == InitBits /\ [][NextBits]_vars

\* the bytes of a bit sequence, MSB first, a shorter last group left out
GroupedBytes(bits) ==
    [k \in 1..(Len(bits) \div 8) |->
        LET b(j) == bits[8 * (k - 1) + j]
        IN  128 * b(1) + 64 * b(2) + 32 * b(3) + 16 * b(4)
              + 8 * b(5) + 4 * b(6) + 2 * b(7) + b(8)]

\* _text_to_bits gives 8 bits for each UTF-8 byte, MSB first
C21_Serialized ==
    pc = "bits"
    => /\ Len(result.bits) = 8 * Len(Utf8Encode(call.message))
       /\ \A n \in 1..Len(result.bits) :
             result.bits[n] = ExpandedBit(Utf8Encode(call.message), n)

\* _bits_to_text reads the full groups as UTF-8
C21_Deserialized ==
    pc = "text" => result.text = Utf8Decode(GroupedBytes(result.bits), 1)

\* C21: bit serializer inverse. _text_to_bits(t) has 8 bits per UTF-8 byte of
\* t, MSB first; _bits_to_text groups the bits into bytes MSB first, drops a
\* shorter last group and reads the bytes as UTF-8; so
\* _bits_to_text(_text_to_bits(t)) = t for every text t.
C21_BitSerializerInverse ==
    /\ C21_Serialized
    /\ C21_Deserialized
    /\ pc = "text" => result.text = call.message

\* no request is being handled
NoRequest == pc = "idle" /\ call = NoCall

\* C22: server temp-file cleanup. When a handler of /api/info, /api/encode or
\* /api/decode has finished, by return or by exception, the uploaded temporary
\* file does not exist, nor does the "<input>_stego.png" file of /api/encode.
C22_TempFilesRemoved ==
    NoRequest => (fs[TmpIn] = NoFile /\ fs[TmpOut] = NoFile)

\* the dict decode_message returns for a file and a password
DecodeOutcome(file, password) ==
    LET body == DecodeBody(file, password)
    IN  IF body.kind = "return" THEN body.value ELSE DecodeExcept(body.exc)

\* C23: the decode outcome does not depend on the password. For a fixed image
\* the success flag of decode_message and the number of payload bytes it
\* recovers are the same for every password: a wrong password never turns a
\* found message into "no message found".
C23_OutcomeIgnoresPassword ==
    DecodedImage
    => \A other \in Passwords :
          LET file   == fs[call.image_path]
              stream == StreamOf(file)
          IN  /\ DecodeOutcome(file, other).success = result.success
              /\ Len(ReverseShift(ExtractPayload(stream), other))
                    = Len(ReverseShift(ExtractPayload(stream), call.password))
              /\ result.success
                    => Len(ReverseShift(ExtractPayload(stream), other))
                          = FirstDelimiter(stream) - 7

\* a wrong password found the message and returned other text, no UTF-8
C23_Witness ==
    /\ DecodedStego
    /\ result.success
    /\ SumOrd(call.password) % 256 # SumOrd(hidden[call.image_path].password) % 256
    /\ result.secret # hidden[call.image_path].message
    /\ ~IsValidUtf8(UnshiftedPayload(StreamOf(fs[call.image_path]), call.password), 1)

\* ================================================ passwords of equal checksum
\* encode_message and decode_message under passwords that differ but have the
\* same sum of code points mod 256.

\* "", two characters of code point 128 (sum 256), "UVV" and "VUV" (sum 257)
ChecksumPasswords == {<<>>, <<128, 128>>, <<85, 86, 86>>, <<86, 85, 86>>}

\* "a", e-acute, the padlock emoji, "a<<END>>b", ""
ChecksumMessages ==
    {<<97>>, <<233>>, <<128272>>, <<97>> \o DELIMITER \o <<98>>, <<>>}

NextChecksum ==
    \/ \E m \in ChecksumMessages, p \in ChecksumPasswords :
          encode_message("carrier.png", m, "out.png", p)
    \/ \E p \in ChecksumPasswords : decode_message("out.png", p)
    \/ ReturnToCaller

SpecChecksum == Init /\ [][NextChecksum]_vars

\* p and q have the same sum of code points mod 256
SameChecksum(p, q) == SumOrd(p) % 256 = SumOrd(q) % 256

\* the file encode_message writes for an image, a message and a password
StegoOf(file, message, password) == EncodeBody(file, message, password).image

\* passwords of equal checksum give the same stego image and the same decode
\* result, the empty password and one of sum 0 included
C24_SameChecksumSameOutcome ==
    /\ EncodedOutput
       => \A q \in ChecksumPasswords :
             SameChecksum(q, call.password)
             => fs[call.output_path]
                  = StegoOf(fs[call.image_path], call.message, q)
    /\ DecodedImage
       => \A q \in ChecksumPasswords :
             SameChecksum(q, call.password)
             => result = DecodeOutcome(fs[call.image_path], q)

\* C24: only the password checksum matters. Two passwords whose code-point
\* sums are equal mod 256 give identical stego images for the same input and
\* decode each other's images to the original message; a non-empty password
\* of sum 0 mod 256 behaves as the empty password.
C24_OnlyChecksumMatters ==
    /\ C24_SameChecksumSameOutcome
    /\ (/\ DecodedStego
        /\ call.password # hidden[call.image_path].password
        /\ SameChecksum(call.password, hidden[call.image_path].password))
       => /\ result.success
          /\ result.secret = hidden[call.image_path].message

\* ========================================================= capacity and encode
\* image_capacity and encode_message on carriers of every mode, one of them a
\* greyscale image large enough for image_capacity to report room.

\* greyscale 8x18 (reports 1), RGBA and RGB 8xMaxHeight, RGB 8x6 (reports 1),
\* RGB 8x1 and 8x2 (too small for the delimiter alone)
CapacityCarriers ==
    {SolidImage("L", 8, 18, <<77>>),
     SolidImage("RGBA", 8, MaxHeight, <<42, 58, 91, 255>>),
     SolidImage("RGB", 8, MaxHeight, <<42, 58, 90>>),
     SolidImage("RGB", 8, 6, <<42, 58, 90>>),
     SolidImage("RGB", 8, 2, <<42, 58, 90>>),
     SolidImage("RGB", 8, 1, <<42, 58, 90>>)}

InitCapacity ==
    /\ \E carrier \in CapacityCarriers :
          fs = [p \in Paths |-> IF p = "carrier.png" THEN carrier ELSE NoFile]
    /\ pc = "idle"
    /\ call = NoCall
    /\ result = NoResult
    /\ hidden = [p \in Paths |-> NoHidden]

NextCapacity ==
    \/ \E m \in Messages, p \in {<<>>, <<85, 86, 86>>} :
          encode_message("carrier.png", m, "out.png", p)
    \/ image_capacity("carrier.png")
    \/ ReturnToCaller

SpecCapacity == InitCapacity /\ [][NextCapacity]_vars

\* encode_message has returned for a message of at most as many UTF-8 bytes
\* as image_capacity reports for the image
EncodedWithinReport ==
    /\ Returned("encode")
    /\ fs[call.image_path].kind = "image"
    /\ CanEncodeUtf8(call.message)
    /\ Len(Utf8Encode(call.message))
          <= CapacityBody(fs[call.image_path]).value.capacity_chars

ChainMessages == {<<97>>, Repeat(233, 4), <<59, 59, 68, 77, 67, 61, 61>>}

ChainPasswords == {<<>>, <<85, 86, 86>>}

InitChain ==
    /\ fs = [p \in Paths |->
               IF p = "carrier.png"
               THEN SolidImage("RGB", 8, MaxHeight, <<42, 58, 90>>)
               ELSE NoFile]
    /\ pc = "idle"
    /\ call = NoCall
    /\ result = NoResult
    /\ hidden = [p \in Paths |-> NoHidden]

NextChain ==
    \/ \E i \in {"carrier.png", "out.png"}, m \in ChainMessages, p \in ChainPasswords :
          encode_message(i, m, "out.png", p)
    \/ \E p \in ChainPasswords : decode_message("out.png", p)
    \/ ReturnToCaller

SpecChain == InitChain /\ [][NextChain]_vars

\* the byte sequence holds "<<END>>" somewhere
HoldsDelimiter(bytes) ==
    \E k \in 7..Len(bytes) :
        SubSeq(bytes, k - 6, k) = <<60, 60, 69, 78, 68, 62, 62>>

\* the payload bytes encode_message embeds for a message and a password
ShiftedPayload(message, password) ==
    [i \in 1..Len(Utf8Encode(message)) |->
        (Utf8Encode(message)[i] + (SumOrd(password) % 256)) % 256]

\* C26: last encode wins. After successful encode_message calls, each taking
\* the previous output as its carrier, decode_message of the final output with
\* the last call's password returns the last call's message, also when bits of
\* earlier, longer payloads remain after its delimiter, provided the last
\* call's shifted payload bytes do not hold the delimiter.
C26_LastEncodeWins ==
    (/\ DecodedStego
     /\ call.password = hidden[call.image_path].password
     /\ ~HoldsDelimiter(ShiftedPayload(hidden[call.image_path].message,
                                       hidden[call.image_path].password)))
    => /\ result.success
       /\ result.secret = hidden[call.image_path].message

\* the output holds the whole delimiter of an earlier, longer payload after
\* the delimiter of the last one, and the last message came back
C26_Witness ==
    /\ DecodedStego
    /\ call.password = hidden[call.image_path].password
    /\ result.success
    /\ result.secret = hidden[call.image_path].message
    /\ LET stream == StreamOf(fs[call.image_path])
       IN  \E k \in 1..(Len(stream) \div 8) :
              k > FirstDelimiter(stream) /\ DelimiterEndsAt(stream, k)

====
